---- MODULE Spec2Model ----
(***************************************************************************)
(* Model of the SSH transport of the component registry client             *)
(* (src/src/scope/network/ssh/ssh.ts): the authentication negotiation of   *)
(* SSH.connect, the exec-stream completion protocol of SSH.exec, the       *)
(* exit-code translation of SSH.errorHandler, SSH.close and the handlers   *)
(* the RPC verbs chain to exec().                                          *)
(*                                                                         *)
(* Text is modelled as a sequence of tokens: a JavaScript string is the    *)
(* sequence of its pieces, concatenation is \o.                            *)
(***************************************************************************)
EXTENDS Integers, Sequences, FiniteSets, TLC

\* ------------------------------------------------------------------ bounds

\* longest strategy list handed to connect()
MaxStrategies == 3

\* the most pieces of output (stdout characters and stderr chunks) a remote
\* command sends back
MaxRes == 3

\* number of exec() calls made on one client
MaxCalls == 2

\* ------------------------------------------------------------- constants

Null == "null"
Undefined == "undefined"

\* this.connection before any handshake succeeded
NoConnection == [by |-> "none", index |-> 0]

\* no error
NoError == [kind |-> "none", message |-> <<>>]

StrategyNames == {"token", "anonymous", "ssh-agent", "ssh-key", "user-password"}

DEFAULT_STRATEGIES == <<"token", "ssh-agent", "ssh-key", "user-password">>

DEFAULT_READ_STRATEGIES == <<"token", "ssh-agent", "ssh-key", "anonymous", "user-password">>

AUTH_FAILED_MESSAGE == "All configured authentication methods failed"

PASSPHRASE_POSSIBLY_MISSING_MESSAGE == "Cannot parse privateKey: Unsupported key format"

\* the header line and the separator of the aggregated failure message
FAILURES_HEADER == "The following strategies were failed"

FAILURES_SEPARATOR == "\n[-] "

\* messages an SSH2 handshake can fail with, beside the two the code names
TIMEOUT_MESSAGE == "Timed out while waiting for handshake"

\* usernames the interactive prompt can return
PromptUsers == {"alice"}

\* the strategy lists connect() is called with before commands are executed
ExecStrategyLists == { <<"token">> }

\* the newline character
NL == "\n"

\* the characters a stdout chunk is made of
StdoutChars == {"a", NL}

\* the verbs exec() is called with: the bulk upload and one other
CommandNames == {"_put", "_list"}

\* the payloads exec() is called with
Payloads == { <<"a">>, <<"a", NL>> }

\* an exit code is <<n>>; <<>> is a completion signal without a numeric code
NoCode == <<>>

ExitCodes == { <<n>> : n \in {0, 1} \cup (126..135) } \cup {NoCode}

\* this.host and this.path, as PermissionDenied reports them
HostAndPath == <<"example.com", ":", "scope/path">>

\* The texts the remote side writes to stderr. A text is a sequence of
\* pieces; each piece named here is either the serialized form of one error
\* envelope or text that is no envelope.
StderrPieces == {"boom", "E_empty", "E_full", "E_msg", "E_null", "E_old"}

\* a field a decoded payload does not hold, or a variable never assigned
Absent == <<Undefined>>

\* ------------------------------------------------------------------ state

VARIABLES
    strategiesNames,    \* connect(): the strategy list of the call
    connectPc,          \* connect(): "idle", "loop", "handshake", "returned", "authFailed", "threw"
    idx,                \* connect(): position of the for-loop in strategiesNames (1-based)
    strategiesFailures, \* connect(): the recoverable failure messages pushed so far
    connectError,       \* connect(): the error connect() rejected with, or NoError
    connection,         \* this.connection: NoConnection, or the connection a handshake produced
    sshUsername,        \* this._sshUsername
    attemptLog,         \* history: one record per strategy function invoked, in invocation order
    callId,             \* number of exec() calls made so far
    execPc,             \* exec(): "none", "opening", "streaming", "closed", "failed"
    commandName,        \* exec(): the verb of the call
    payload,            \* exec(): the payload of the call
    cmdPayload,         \* exec(): the payload packed into the command line by buildCmd
    ctxUsername,        \* exec(): context.sshUsername of the command
    res,                \* exec(): let res, the stdout accumulator
    err,                \* exec(): let err, the stderr variable
    exitCode,           \* exec(): the code the 'exit' event carried
    timer,              \* exec(): the setTimeout of the exit handler: "none", "pending", "fired"
    promise,            \* exec(): the returned promise: "none", "pending", "resolved", "rejected"
    value,              \* exec(): what the promise settled with
    settlement,         \* history: the path that settled the promise and what it read
    stdinWrites,        \* exec(): what was written to stream.stdin
    stdinEnded,         \* exec(): stream.stdin.end() was called
    checkCalled,        \* R.once(checkVersionCompatibilityFunction): the wrapped function was called
    translations,       \* history: number of errorHandler calls made for this exec() call
    stdoutSeen,         \* history: the stdout chunks of this exec() call, in delivery order
    stderrSeen,         \* history: the stderr chunks of this exec() call, in delivery order
    checkLog,           \* history: the versions the wrapped check function ran on, in order
    versionsSeen,       \* history: the versions checkVersionCompatibility was called with
    connectionEnded,    \* connection.end() was called
    closeCalls,         \* history: number of close() calls the caller made
    verb,               \* the RPC verb under way
    rpcPc,              \* the verb: "idle", "awaiting", "settled", "done"
    rpcOutcome          \* what the promise of the verb settled with

connectVars == <<strategiesNames, connectPc, idx, strategiesFailures, connectError,
                 connection, sshUsername, attemptLog>>

execVars == <<callId, execPc, commandName, payload, cmdPayload, ctxUsername, res, err,
              exitCode, timer, promise, value, settlement, stdinWrites, stdinEnded,
              checkCalled, translations>>

seenVars == <<stdoutSeen, stderrSeen>>

checkVars == <<checkLog, versionsSeen>>

closeVars == <<connectionEnded, closeCalls>>

rpcVars == <<verb, rpcPc, rpcOutcome>>

vars == <<connectVars, execVars, seenVars, checkVars, closeVars, rpcVars>>

\* ------------------------------------------------------ connect(): helpers

RECURSIVE join(_, _)
\* Array.prototype.join: the elements' texts with the separator between them
join(arr, sep) ==
    IF Len(arr) = 0 THEN <<>>
    ELSE IF Len(arr) = 1 THEN arr[1]
    ELSE arr[1] \o <<sep>> \o join(Tail(arr), sep)

\* Array.prototype.unshift
unshift(arr, x) == <<x>> \o arr

\* a variant of push that adds at the front
pushFront(arr, x) == <<x>> \o arr

\* Array.prototype.push
push(arr, x) == Append(arr, x)

\* the message of the AuthenticationStrategyFailed a strategy raises when its
\* credential is missing, before any handshake
missingCredentialMsg(s) ==
    CASE s = "token" ->
           <<"user token not defined in bit-config. please run bit login to authenticate.">>
      [] s = "anonymous" -> <<"could not create the anonymous ssh configuration.">>
      [] s = "ssh-agent" ->
           <<"unable to get SSH keys from ssh-agent to. perhaps service is down or disabled.">>
      [] s = "ssh-key" ->
           <<"SSH key not found in ~/.ssh/id_rsa or ssh_key_file config in bit config either not configured or refers to wrong path.">>
      [] OTHER -> <<"unreachable">>

\* the hint each strategy hands to _connectWithConfig
authFailedMsg(s) ==
    CASE s = "token" ->
           "failed to authenticate with user token. generate a new token by running bit logout && bit login."
      [] s = "anonymous" -> "collection might be private."
      [] s = "ssh-agent" ->
           "no matching private key found in ssh-agent to authenticate to remote server."
      [] s = "ssh-key" ->
           "failed connecting to remote server using ~/.ssh/id_rsa or ssh_key_file in bit config."
      [] OTHER -> "unable to connect using provided username and password combination."

\* What building the strategy's configuration can do, over the credentials the
\* environment may or may not hold: ok = a configuration was built and the
\* handshake follows; username = the value written to this._sshUsername
\* ("keep" when the strategy does not write it).
composeOutcomes(s) ==
    CASE s = "token" ->
           { [ok |-> TRUE, username |-> "token"], [ok |-> FALSE, username |-> "keep"] }
      [] s = "anonymous" -> { [ok |-> TRUE, username |-> "anonymous"] }
      [] s = "ssh-agent" ->
           { [ok |-> TRUE, username |-> "keep"], [ok |-> FALSE, username |-> "keep"] }
      [] s = "ssh-key" ->
           { [ok |-> TRUE, username |-> "keep"], [ok |-> FALSE, username |-> "keep"] }
      [] OTHER -> { [ok |-> TRUE, username |-> u] : u \in PromptUsers }

\* the events an SSH2 handshake ends with: ready, or an error event with this error
HandshakeErrors ==
    { [code |-> "none", message |-> AUTH_FAILED_MESSAGE],
      [code |-> "ENOTFOUND", message |-> "getaddrinfo ENOTFOUND"],
      [code |-> "none", message |-> PASSPHRASE_POSSIBLY_MISSING_MESSAGE],
      [code |-> "none", message |-> TIMEOUT_MESSAGE] }

\* no handshake error
NoCause == [code |-> "none", message |-> "none"]

\* a variant of connectWithConfigCatch that wraps the generic message only and
\* raises every other handshake error as a general error
connectWithConfigCatchGeneric(failure, hint, macMojaveOs) ==
    IF failure.message = AUTH_FAILED_MESSAGE
    THEN [kind |-> "AuthenticationStrategyFailed", message |-> <<hint>>]
    ELSE [kind |-> "GeneralError",
          message |-> <<"unable to find the SSH server.", failure.message>>]

\* the catch block of _connectWithConfig: the error the strategy raises for a
\* handshake error; macMojaveOs is the platform test of line 241
connectWithConfigCatch(failure, hint, macMojaveOs) ==
    IF failure.message = AUTH_FAILED_MESSAGE
    THEN [kind |-> "AuthenticationStrategyFailed", message |-> <<hint>>]
    ELSE IF failure.code = "ENOTFOUND"
    THEN [kind |-> "GeneralError",
          message |-> <<"unable to find the SSH server.", failure.message>>]
    ELSE IF failure.message = PASSPHRASE_POSSIBLY_MISSING_MESSAGE
    THEN [kind |-> "AuthenticationStrategyFailed",
          message |->
            IF macMojaveOs
            THEN <<"error connecting with private ssh key. in case passphrase is used, use ssh-agent.",
                   " for macOS Mojave users, use -m PEM for ssh-keygen command to generate a valid SSH key">>
            ELSE <<"error connecting with private ssh key. in case passphrase is used, use ssh-agent.">>]
    ELSE [kind |-> "AuthenticationStrategyFailed",
          message |-> <<hint, " due to an error ", failure.message>>]

\* a variant of isRecoverable that takes every failure for a strategy failure
isRecoverableAny(failure) == TRUE

\* the test of the catch block of connect(): is the failure pushed, or rethrown
isRecoverable(failure) == failure.kind = "AuthenticationStrategyFailed"

\* lines 118-120: the error connect() ends with when the loop runs out
authenticationFailed(failures) ==
    [kind |-> "AuthenticationFailed",
     message |-> join(unshift(failures, <<FAILURES_HEADER>>), FAILURES_SEPARATOR)]

\* the loop's next position after the strategy at position i did not succeed
nextIndex(i) == i + 1

\* ------------------------------------------------------ connect(): actions

\* The state connect() is left in when the strategy at idx raised failure: the
\* catch block of lines 109-116, then the next iteration or lines 118-120.
strategyRaised(failure, log) ==
    IF isRecoverable(failure)
    THEN LET failures == push(strategiesFailures, failure.message) IN
         /\ strategiesFailures' = failures
         /\ attemptLog' = log
         /\ idx' = nextIndex(idx)
         /\ IF nextIndex(idx) > Len(strategiesNames)
            THEN /\ connectPc' = "authFailed"
                 /\ connectError' = authenticationFailed(failures)
            ELSE /\ connectPc' = "loop"
                 /\ connectError' = connectError
    ELSE /\ connectPc' = "threw"
         /\ connectError' = failure
         /\ attemptLog' = log
         /\ UNCHANGED <<strategiesFailures, idx>>

\* connect(strategiesNames) is called on the client, with one of these lists
connect(lists) ==
    /\ connectPc = "idle"
    /\ \E names \in lists : LET n == Len(names) IN
         /\ strategiesNames' = names
         /\ strategiesFailures' = <<>>
         /\ idx' = 1
         /\ IF n = 0
            THEN /\ connectPc' = "authFailed"
                 /\ connectError' = authenticationFailed(<<>>)
            ELSE /\ connectPc' = "loop"
                 /\ connectError' = connectError
    /\ UNCHANGED <<connection, sshUsername, attemptLog>>
    /\ UNCHANGED <<execVars, seenVars, checkVars, closeVars, rpcVars>>

\* every strategy list of at most MaxStrategies names
AllStrategyLists == UNION { [1..n -> StrategyNames] : n \in 0..MaxStrategies }

\* the loop invokes the strategy function at idx, which builds its
\* configuration and either raises (credential missing) or starts a handshake
startStrategy ==
    /\ connectPc = "loop"
    /\ LET s == strategiesNames[idx] IN
       \E o \in composeOutcomes(s) :
         /\ sshUsername' = IF o.username = "keep" THEN sshUsername ELSE o.username
         /\ IF o.ok
            THEN /\ connectPc' = "handshake"
                 /\ attemptLog' = Append(attemptLog,
                        [index |-> idx, strategy |-> s, handshake |-> TRUE,
                         outcome |-> "pending", error |-> NoError, cause |-> NoCause])
                 /\ UNCHANGED <<strategiesFailures, idx, connectError>>
            ELSE LET failure == [kind |-> "AuthenticationStrategyFailed",
                             message |-> missingCredentialMsg(s)] IN
                 strategyRaised(failure, Append(attemptLog,
                        [index |-> idx, strategy |-> s, handshake |-> FALSE,
                         outcome |-> "raised", error |-> failure, cause |-> NoCause]))
    /\ UNCHANGED <<strategiesNames, connection>>
    /\ UNCHANGED <<execVars, seenVars, checkVars, closeVars, rpcVars>>

\* a variant of handshakeReady in which the loop goes on after a success
handshakeReadyNoReturn ==
    /\ connectPc = "handshake"
    /\ connection' = [by |-> strategiesNames[idx], index |-> idx]
    /\ idx' = nextIndex(idx)
    /\ connectPc' = IF nextIndex(idx) > Len(strategiesNames) THEN "returned" ELSE "loop"
    /\ attemptLog' = [attemptLog EXCEPT ![Len(attemptLog)].outcome = "ready"]
    /\ UNCHANGED <<strategiesNames, strategiesFailures, connectError, sshUsername>>
    /\ UNCHANGED <<execVars, seenVars, checkVars, closeVars, rpcVars>>

\* the handshake of the strategy at idx emits 'ready': _connectWithConfig stores
\* the connection and resolves with the client, and connect() returns it (line 108)
handshakeReady ==
    /\ connectPc = "handshake"
    /\ connection' = [by |-> strategiesNames[idx], index |-> idx]
    /\ connectPc' = "returned"
    /\ attemptLog' = [attemptLog EXCEPT ![Len(attemptLog)].outcome = "ready"]
    /\ UNCHANGED <<strategiesNames, idx, strategiesFailures, connectError, sshUsername>>
    /\ UNCHANGED <<execVars, seenVars, checkVars, closeVars, rpcVars>>

\* the handshake of the strategy at idx emits an error event
handshakeError ==
    /\ connectPc = "handshake"
    /\ \E e \in HandshakeErrors : \E macMojaveOs \in BOOLEAN :
         LET failure == connectWithConfigCatch(e, authFailedMsg(strategiesNames[idx]), macMojaveOs) IN
         strategyRaised(failure, [attemptLog EXCEPT ![Len(attemptLog)].outcome = "raised",
                                                ![Len(attemptLog)].error = failure,
                                                ![Len(attemptLog)].cause = e])
    /\ UNCHANGED <<strategiesNames, connection, sshUsername>>
    /\ UNCHANGED <<execVars, seenVars, checkVars, closeVars, rpcVars>>

\* ------------------------------------------------------- errorHandler()

\* a decoded payload with none of the fields the error kinds read
emptyPayload ==
    [present |-> TRUE, message |-> Absent, id |-> Absent, name |-> Absent,
     idsAndVersions |-> Absent, sourceScope |-> Absent, destinationScope |-> Absent]

\* the envelope each serialized piece stands for
envelopeOf(piece) ==
    CASE piece = "E_empty" -> [version |-> "v1", payload |-> emptyPayload]
      [] piece = "E_msg" ->
           [version |-> "v1", payload |-> [emptyPayload EXCEPT !.message = <<"blocked">>]]
      [] piece = "E_null" ->
           [version |-> "v1", payload |-> [emptyPayload EXCEPT !.present = FALSE]]
      [] piece = "E_old" ->
           [version |-> "v9",
            payload |-> [emptyPayload EXCEPT !.message = <<"blocked">>, !.id = <<"my/comp">>,
                           !.name = <<"my-scope">>, !.idsAndVersions = <<"my/comp@0.0.1">>,
                           !.sourceScope = <<"a">>, !.destinationScope = <<"b">>]]
      [] OTHER ->
           [version |-> "v1",
            payload |-> [emptyPayload EXCEPT !.message = <<"blocked">>, !.id = <<"my/comp">>,
                           !.name = <<"my-scope">>, !.idsAndVersions = <<"my/comp@0.0.1">>,
                           !.sourceScope = <<"a">>, !.destinationScope = <<"b">>]]

\* unpackCommand(data, false): a text decodes when it is exactly one serialized
\* envelope; anything else (no text, other text, an envelope with text before
\* or after it) makes the decoder throw, which _unpack turns into SSHInvalidResponse
unpack(data) ==
    IF data # Absent /\ Len(data) = 1 /\ data[1] \in StderrPieces \ {"boom"}
    THEN [ok |-> TRUE, headers |-> [version |-> envelopeOf(data[1]).version],
          payload |-> envelopeOf(data[1]).payload]
    ELSE [ok |-> FALSE, headers |-> [version |-> "none"],
          payload |-> [emptyPayload EXCEPT !.present = FALSE]]

\* checkVersionCompatibilityFunction: the versions it raises for
incompatible(version) == version = "v9"

\* R.once(fn)(version), called = the flag of once: does this call raise
checkVersionCompatibilityThrows(version, called) ==
    IF called THEN FALSE ELSE incompatible(version)

\* JavaScript truthiness of a field value: present and not the empty string
truthy(v) == v # Absent /\ v # <<>>

\* an error value: its kind and the arguments its constructor was given
Error(kind, detail) ==
    [kind |-> kind, detail |-> detail, sourceScope |-> Absent, destinationScope |-> Absent]

\* a variant of kindOf in which the case of code 130 is missing
kindOfWithout130(code) ==
    CASE code = <<127>> -> "ComponentNotFound"
      [] code = <<128>> -> "PermissionDenied"
      [] code = <<129>> -> "RemoteScopeNotFound"
      [] code = <<131>> -> "MergeConflictOnRemote"
      [] code = <<132>> -> "CustomError"
      [] code = <<133>> -> "OldClientVersion"
      [] code = <<134>> -> "ExportAnotherOwnerPrivate"
      [] OTHER -> "UnexpectedNetworkError"

\* the switch of errorHandler: the error class constructed for each code
kindOf(code) ==
    CASE code = <<127>> -> "ComponentNotFound"
      [] code = <<128>> -> "PermissionDenied"
      [] code = <<129>> -> "RemoteScopeNotFound"
      [] code = <<130>> -> "PermissionDenied"
      [] code = <<131>> -> "MergeConflictOnRemote"
      [] code = <<132>> -> "CustomError"
      [] code = <<133>> -> "OldClientVersion"
      [] code = <<134>> -> "ExportAnotherOwnerPrivate"
      [] OTHER -> "UnexpectedNetworkError"

\* the switch of errorHandler: the arguments each error is constructed with;
\* parsed = parsedError was assigned
translate(code, parsed, parsedError, raw) ==
    LET ok == parsed /\ parsedError.present
        kind == kindOf(code)
    IN
    CASE kind = "ComponentNotFound" ->
           Error(kind, IF ok /\ truthy(parsedError.id) THEN parsedError.id ELSE raw)
      [] kind = "PermissionDenied" -> Error(kind, HostAndPath)
      [] kind = "RemoteScopeNotFound" ->
           Error(kind, IF ok /\ truthy(parsedError.name) THEN parsedError.name ELSE raw)
      [] kind = "MergeConflictOnRemote" ->
           Error(kind, IF ok /\ truthy(parsedError.idsAndVersions)
                       THEN parsedError.idsAndVersions ELSE <<>>)
      [] kind \in {"CustomError", "OldClientVersion"} ->
           Error(kind, IF ok /\ truthy(parsedError.message) THEN parsedError.message ELSE raw)
      [] kind = "ExportAnotherOwnerPrivate" ->
           [kind |-> kind,
            detail |-> IF ok /\ truthy(parsedError.message) THEN parsedError.message ELSE raw,
            sourceScope |->
              IF ok /\ truthy(parsedError.sourceScope) THEN parsedError.sourceScope
              ELSE <<"unknown">>,
            destinationScope |->
              IF ok /\ truthy(parsedError.destinationScope) THEN parsedError.destinationScope
              ELSE <<"unknown">>]
      [] OTHER -> Error(kind, IF ok THEN parsedError.message ELSE raw)

\* errorHandler(code, err) when the flag of R.once is called: the try block
\* assigns parsedError only if the text decodes and the version check does
\* not raise; the catch block swallows either failure
errorHandler(code, errText, called) ==
    LET u == unpack(errText)
        parsed == u.ok /\ ~checkVersionCompatibilityThrows(u.headers.version, called)
    IN translate(code, parsed, u.payload, errText)

\* the flag of R.once after errorHandler(code, err)
calledAfterErrorHandler(errText, called) == called \/ unpack(errText).ok

\* the versions the wrapped function has run on after a call of
\* checkVersionCompatibility(version): R.once runs it on the first call only
checkLogAfterCheck(version, called, log) ==
    IF called THEN log ELSE Append(log, version)

\* what errorHandler(code, err) adds to the history of decodes and checks
errorHandlerHistory(errText) ==
    LET u == unpack(errText) IN
    IF u.ok
    THEN /\ versionsSeen' = versionsSeen \cup {u.headers.version}
         /\ checkLog' = checkLogAfterCheck(u.headers.version, checkCalled, checkLog)
    ELSE UNCHANGED checkVars

\* ---------------------------------------------------------------- exec()

\* the codes the remote process of a command ends with
StreamExitCodes == { NoCode, <<0>>, <<1>>, <<127>> }

\* the texts a stderr chunk carries
StderrChunks == { <<p>> : p \in {"boom", "E_full", "E_empty", "E_old"} }

\* the payload of a command line that carries none
NullPayload == <<Null>>

\* position of the first occurrence of pat in str, 0 if there is none
indexOf(str, pat) ==
    LET hits == { i \in 1..(Len(str) - Len(pat) + 1) : SubSeq(str, i, i + Len(pat) - 1) = pat }
    IN IF hits = {} THEN 0 ELSE CHOOSE i \in hits : \A j \in hits : i <= j

\* String.prototype.replace(pat, '') with a string pattern: the first
\* occurrence of pat is removed, the rest of the text is left as it is
replaceFirst(str, pat) ==
    LET i == indexOf(str, pat) IN
    IF i = 0 \/ pat = <<>> THEN str
    ELSE SubSeq(str, 1, i - 1) \o SubSeq(str, i + Len(pat), Len(str))

\* function clean(str): str.replace('\n', '')
clean(str) == replaceFirst(str, <<NL>>)

\* a variant of isFailureCode with the two branches of the test exchanged
isFailureCodeInverted(code) == code = <<0>>

\* a variant of isFailureCode that tests code !== 0 only
isFailureCodeStrict(code) == code # <<0>>

\* the test code && code !== 0 of the exit and close handlers
isFailureCode(code) == code # NoCode /\ code # <<0>>

\* what a promise is settled with
Resolved(text) == [text |-> text, error |-> Error("none", <<>>)]

Rejected(error) == [text |-> <<>>, error |-> error]

\* a variant of settle in which a later call replaces the outcome
settleAgain(state, val, by, code) ==
    /\ promise' = state
    /\ value' = val
    /\ settlement' = [by |-> by, code |-> code, res |-> res', err |-> err,
                      called |-> checkCalled]

\* resolve()/reject() of the promise of exec(): only the first call has an effect
settle(state, val, by, code) ==
    IF promise = "pending"
    THEN /\ promise' = state
         /\ value' = val
         /\ settlement' = [by |-> by, code |-> code, res |-> res', err |-> err,
                           called |-> checkCalled]
    ELSE UNCHANGED <<promise, value, settlement>>

\* a variant of endedAfterCompletion in which a completion handler ends the connection
endedAfterCompletionCloses(ended) == TRUE

\* the connection after a completion handler ran: the handlers make no call
\* of connection.end() (the comment of lines 316-317)
endedAfterCompletion(ended) == ended

\* the expression both completion handlers end with:
\* code && code !== 0 ? reject(this.errorHandler(code, err)) : resolve(clean(res))
complete(by, code) ==
    /\ IF isFailureCode(code)
       THEN /\ settle("rejected", Rejected(errorHandler(code, err, checkCalled)), by, code)
            /\ checkCalled' = calledAfterErrorHandler(err, checkCalled)
            /\ errorHandlerHistory(err)
            /\ translations' = translations + 1
       ELSE /\ settle("resolved", Resolved(clean(res')), by, code)
            /\ UNCHANGED <<checkCalled, translations, checkVars>>
    /\ connectionEnded' = endedAfterCompletion(connectionEnded)

\* a variant of hasConnection that lets every call through
hasConnectionAlways(conn) == TRUE

\* the test of line 283: is this.connection set
hasConnection(conn) == conn # NoConnection

\* exec(commandName, payload, context) is called while no other call is under way
execCall ==
    /\ callId < MaxCalls
    /\ connectPc \notin {"loop", "handshake"}
    /\ \/ execPc \in {"none", "failed"}
       \/ execPc = "closed" /\ timer # "pending"
    /\ callId' = callId + 1
    /\ \E c \in CommandNames : \E p \in Payloads :
         /\ commandName' = c
         /\ payload' = p
         /\ cmdPayload' = IF c = "_put" THEN NullPayload ELSE p
    /\ ctxUsername' = sshUsername
    /\ res' = <<>>
    /\ err' = Absent
    /\ exitCode' = NoCode
    /\ timer' = "none"
    /\ stdinWrites' = <<>>
    /\ stdinEnded' = FALSE
    /\ translations' = 0
    /\ IF ~hasConnection(connection)
       THEN /\ execPc' = "failed"
            /\ promise' = "rejected"
            /\ value' = Rejected(Error("string", <<"ssh connection is not defined">>))
            /\ settlement' = [by |-> "noConnection", code |-> NoCode, res |-> <<>>,
                              err |-> Absent, called |-> checkCalled]
       ELSE /\ execPc' = "opening"
            /\ promise' = "pending"
            /\ value' = Resolved(<<>>)
            /\ settlement' = [by |-> "none", code |-> NoCode, res |-> <<>>,
                              err |-> Absent, called |-> checkCalled]
    /\ stdoutSeen' = <<>>
    /\ stderrSeen' = <<>>
    /\ UNCHANGED checkCalled
    /\ UNCHANGED <<connectVars, checkVars, closeVars, rpcVars>>

\* connection.exec calls back with an error; on a connection that was ended
\* this is the only outcome
execCallbackError ==
    /\ execPc = "opening"
    /\ execPc' = "failed"
    /\ promise' = "rejected"
    /\ value' = Rejected(Error("ExecError", <<"exec failed">>))
    /\ settlement' = [settlement EXCEPT !.by = "execError"]
    /\ UNCHANGED <<callId, commandName, payload, cmdPayload, ctxUsername, res, err, exitCode,
                   timer, stdinWrites, stdinEnded, checkCalled, translations>>
    /\ UNCHANGED <<connectVars, seenVars, checkVars, closeVars, rpcVars>>

\* a variant of execCallbackStream that writes nothing to the input of the stream
execCallbackStreamNoWrite ==
    /\ execPc = "opening"
    /\ ~connectionEnded
    /\ execPc' = "streaming"
    /\ UNCHANGED <<callId, commandName, payload, cmdPayload, ctxUsername, res, err, exitCode,
                   timer, promise, value, settlement, stdinWrites, stdinEnded, checkCalled,
                   translations>>
    /\ UNCHANGED <<connectVars, seenVars, checkVars, closeVars, rpcVars>>

\* connection.exec calls back with the stream: the payload of _put is written
\* to its input, and the handlers are registered
execCallbackStream ==
    /\ execPc = "opening"
    /\ ~connectionEnded
    /\ execPc' = "streaming"
    /\ IF commandName = "_put"
       THEN /\ stdinWrites' = Append(stdinWrites, payload)
            /\ stdinEnded' = TRUE
       ELSE UNCHANGED <<stdinWrites, stdinEnded>>
    /\ UNCHANGED <<callId, commandName, payload, cmdPayload, ctxUsername, res, err, exitCode,
                   timer, promise, value, settlement, checkCalled, translations>>
    /\ UNCHANGED <<connectVars, seenVars, checkVars, closeVars, rpcVars>>

\* stream.on('data'): res += response.toString()
stdoutData ==
    /\ execPc = "streaming"
    /\ Len(stdoutSeen) + Len(stderrSeen) < MaxRes
    /\ \E ch \in StdoutChars :
         /\ res' = res \o <<ch>>
         /\ stdoutSeen' = stdoutSeen \o <<ch>>
    /\ UNCHANGED <<callId, execPc, commandName, payload, cmdPayload, ctxUsername, err, exitCode,
                   timer, promise, value, settlement, stdinWrites, stdinEnded, checkCalled,
                   translations>>
    /\ UNCHANGED <<connectVars, stderrSeen, checkVars, closeVars, rpcVars>>

\* stream.stderr.on('data'): err = response.toString()
stderrData ==
    /\ execPc = "streaming"
    /\ Len(stdoutSeen) + Len(stderrSeen) < MaxRes
    /\ \E chunk \in StderrChunks :
         /\ err' = chunk
         /\ stderrSeen' = stderrSeen \o chunk
    /\ UNCHANGED <<callId, execPc, commandName, payload, cmdPayload, ctxUsername, res, exitCode,
                   timer, promise, value, settlement, stdinWrites, stdinEnded, checkCalled,
                   translations>>
    /\ UNCHANGED <<connectVars, stdoutSeen, checkVars, closeVars, rpcVars>>

\* stream.on('exit'): promiseExit is scheduled with the code of the event
streamExit ==
    /\ execPc = "streaming"
    /\ timer = "none"
    /\ \E code \in StreamExitCodes : exitCode' = code
    /\ timer' = "pending"
    /\ UNCHANGED <<callId, execPc, commandName, payload, cmdPayload, ctxUsername, res, err,
                   promise, value, settlement, stdinWrites, stdinEnded, checkCalled,
                   translations>>
    /\ UNCHANGED <<connectVars, seenVars, checkVars, closeVars, rpcVars>>

\* stream.on('close'): carries the code of the exit event when there was one
streamClose ==
    /\ execPc = "streaming"
    /\ execPc' = "closed"
    /\ res' = IF commandName = "_put" THEN replaceFirst(res, payload) ELSE res
    /\ \E code \in StreamExitCodes :
         /\ timer # "none" => code = exitCode
         /\ complete("close", code)
    /\ UNCHANGED <<callId, commandName, payload, cmdPayload, ctxUsername, err, exitCode, timer,
                   stdinWrites, stdinEnded>>
    /\ UNCHANGED <<connectVars, seenVars, closeCalls, rpcVars>>

\* a variant of timerFire in which the timeout elapses and promiseExit does nothing
timerFireIdle ==
    /\ timer = "pending"
    /\ timer' = "fired"
    /\ UNCHANGED <<callId, execPc, commandName, payload, cmdPayload, ctxUsername, res, err,
                   exitCode, promise, value, settlement, stdinWrites, stdinEnded, checkCalled,
                   translations>>
    /\ UNCHANGED <<connectVars, seenVars, checkVars, closeVars, rpcVars>>

\* the timeout of the exit handler elapses: promiseExit runs
timerFire ==
    /\ timer = "pending"
    /\ timer' = "fired"
    /\ res' = res
    /\ complete("timer", exitCode)
    /\ UNCHANGED <<callId, execPc, commandName, payload, cmdPayload, ctxUsername, err, exitCode,
                   stdinWrites, stdinEnded>>
    /\ UNCHANGED <<connectVars, seenVars, closeCalls, rpcVars>>

\* ---------------------------------------------------------------- close()

\* close(): this.connection.end(); the owner of the client calls it once,
\* between commands
close ==
    /\ hasConnection(connection)
    /\ ~connectionEnded
    /\ execPc \notin {"opening", "streaming"}
    /\ timer # "pending"
    /\ connectionEnded' = TRUE
    /\ closeCalls' = closeCalls + 1
    /\ UNCHANGED <<connectVars, execVars, seenVars, checkVars, rpcVars>>

\* ------------------------------------------------------------ the RPC verbs

Verbs ==
    {"describeScope", "list", "latestVersions", "search", "show", "log", "graph", "fetch",
     "pushMany", "deleteMany", "deprecateMany", "undeprecateMany"}

\* the command each verb hands to exec()
commandOf(v) ==
    CASE v = "describeScope" -> "_scope"
      [] v = "list" -> "_list"
      [] v = "latestVersions" -> "_latest"
      [] v = "search" -> "_search"
      [] v = "show" -> "_show"
      [] v = "log" -> "_log"
      [] v = "graph" -> "_graph"
      [] v = "fetch" -> "_fetch"
      [] v = "pushMany" -> "_put"
      [] v = "deleteMany" -> "_delete"
      [] v = "deprecateMany" -> "_deprecate"
      [] OTHER -> "_undeprecate"

\* the verbs whose then-handler calls checkVersionCompatibility(headers.version)
checksVersion(v) == v \notin {"deleteMany", "deprecateMany", "undeprecateMany"}

\* a variant of catchesEverything in which no verb has a catch handler
catchesNothing(v) == FALSE

\* the verbs whose promise chain ends with .catch(() => { throw ... })
catchesEverything(v) == v = "describeScope"

\* this.path
ScopePath == <<"scope/path">>

\* a variant of invalidResponse that leaves the response text out
invalidResponseNoText(data) == Error("SSHInvalidResponse", <<>>)

\* new SSHInvalidResponse(data)
invalidResponse(data) == Error("SSHInvalidResponse", data)

\* what the promise of a verb settles with; decoded, checkInvoked and checkRan
\* record whether the then-handler decoded an envelope, whether it called
\* checkVersionCompatibility, and whether that call ran the wrapped function
Outcome(state, pl, error, decoded, checkInvoked, checkRan) ==
    [state |-> state, payload |-> pl, error |-> error, decoded |-> decoded,
     checkInvoked |-> checkInvoked, checkRan |-> checkRan]

NoOutcome == Outcome("none", emptyPayload, Error("none", <<>>), FALSE, FALSE, FALSE)

\* the stdout of a command that ended with code 0: one envelope and a line
\* end, an envelope alone, other text, nothing
ResponseStdouts ==
    { <<"E_full", NL>>, <<"E_old", NL>>, <<"E_empty">>, <<"boom", NL>>, <<"boom", "E_full">>, <<>> }

\* the exit codes and stderr texts of a command that failed
RpcFailureCodes == { <<1>>, <<127>>, <<128>> }

RpcErrorTexts == { Absent, <<"boom">>, <<"E_full">>, <<"E_old">> }

\* what exec() rejects with when no command ran
ExecFailures ==
    { Error("string", <<"ssh connection is not defined">>), Error("ExecError", <<"exec failed">>) }

\* a verb is called: it calls this.exec(command, ...) and chains its handlers
rpcCall ==
    /\ rpcPc \in {"idle", "done"}
    /\ callId < MaxCalls
    /\ callId' = callId + 1
    /\ \E v \in Verbs :
         /\ verb' = v
         /\ commandName' = commandOf(v)
    /\ rpcPc' = "awaiting"
    /\ rpcOutcome' = NoOutcome
    /\ promise' = "pending"
    /\ value' = Resolved(<<>>)
    /\ res' = <<>>
    /\ err' = Absent
    /\ exitCode' = NoCode
    /\ translations' = 0
    /\ UNCHANGED <<execPc, payload, cmdPayload, ctxUsername, timer, settlement, stdinWrites,
                   stdinEnded, checkCalled>>
    /\ UNCHANGED <<connectVars, seenVars, checkVars, closeVars>>

\* the command ends with code 0: exec() resolves with clean(res)
rpcExecResolves ==
    /\ rpcPc = "awaiting"
    /\ \E out \in ResponseStdouts :
         /\ res' = out
         /\ value' = Resolved(clean(out))
    /\ promise' = "resolved"
    /\ rpcPc' = "settled"
    /\ UNCHANGED <<callId, execPc, commandName, payload, cmdPayload, ctxUsername, err, exitCode,
                   timer, settlement, stdinWrites, stdinEnded, checkCalled, translations>>
    /\ UNCHANGED <<connectVars, seenVars, checkVars, closeVars, verb, rpcOutcome>>

\* the command ends with a failure code: exec() rejects with errorHandler(code, err)
rpcExecRejects ==
    /\ rpcPc = "awaiting"
    /\ \E code \in RpcFailureCodes : \E errText \in RpcErrorTexts :
         /\ exitCode' = code
         /\ err' = errText
         /\ value' = Rejected(errorHandler(code, errText, checkCalled))
         /\ checkCalled' = calledAfterErrorHandler(errText, checkCalled)
         /\ errorHandlerHistory(errText)
    /\ translations' = translations + 1
    /\ promise' = "rejected"
    /\ rpcPc' = "settled"
    /\ UNCHANGED <<callId, execPc, commandName, payload, cmdPayload, ctxUsername, res, timer,
                   settlement, stdinWrites, stdinEnded>>
    /\ UNCHANGED <<connectVars, seenVars, closeVars, verb, rpcOutcome>>

\* no command ran: the connection is missing, or connection.exec called back
\* with an error
rpcExecFails ==
    /\ rpcPc = "awaiting"
    /\ \E failure \in ExecFailures : value' = Rejected(failure)
    /\ promise' = "rejected"
    /\ rpcPc' = "settled"
    /\ UNCHANGED <<callId, execPc, commandName, payload, cmdPayload, ctxUsername, res, err,
                   exitCode, timer, settlement, stdinWrites, stdinEnded, checkCalled,
                   translations>>
    /\ UNCHANGED <<connectVars, seenVars, checkVars, closeVars, verb, rpcOutcome>>

\* the handlers the verb chained to exec() run: a rejection passes through the
\* then-handler; a resolved text is decoded (this._unpack, or JSON.parse in
\* fetch), the version check is called by the verbs that call it, and the
\* payload is returned; the catch handler of describeScope replaces every
\* rejection
rpcThen ==
    /\ rpcPc = "settled"
    /\ LET u == unpack(value.text)
           decoded == promise = "resolved" /\ u.ok
           invoked == decoded /\ checksVersion(verb)
           ran == invoked /\ ~checkCalled
           threw == invoked /\ checkVersionCompatibilityThrows(u.headers.version, checkCalled)
           failure ==
             IF promise = "rejected" THEN value.error
             ELSE IF ~u.ok THEN invalidResponse(value.text)
             ELSE IF threw THEN Error("IncompatibleVersion", <<u.headers.version>>)
             ELSE Error("none", <<>>)
       IN /\ rpcOutcome' =
               IF failure.kind = "none"
               THEN Outcome("resolved", u.payload, failure, decoded, invoked, ran)
               ELSE IF catchesEverything(verb)
               THEN Outcome("rejected", emptyPayload, Error("RemoteScopeNotFound", ScopePath),
                            decoded, invoked, ran)
               ELSE Outcome("rejected", emptyPayload, failure, decoded, invoked, ran)
          /\ checkCalled' = (checkCalled \/ invoked)
          /\ versionsSeen' = IF invoked THEN versionsSeen \cup {u.headers.version}
                             ELSE versionsSeen
          /\ checkLog' = IF invoked
                         THEN checkLogAfterCheck(u.headers.version, checkCalled, checkLog)
                         ELSE checkLog
    /\ rpcPc' = "done"
    /\ UNCHANGED <<callId, execPc, commandName, payload, cmdPayload, ctxUsername, res, err,
                   exitCode, timer, promise, value, settlement, stdinWrites, stdinEnded,
                   translations>>
    /\ UNCHANGED <<connectVars, seenVars, closeVars, verb>>

\* ---------------------------------------------------------- specification

InitConnect ==
    /\ strategiesNames = <<>>
    /\ connectPc = "idle"
    /\ idx = 1
    /\ strategiesFailures = <<>>
    /\ connectError = NoError
    /\ connection = NoConnection
    /\ sshUsername = Undefined
    /\ attemptLog = <<>>

InitExec ==
    /\ callId = 0
    /\ execPc = "none"
    /\ commandName = "none"
    /\ payload = <<>>
    /\ cmdPayload = <<>>
    /\ ctxUsername = Undefined
    /\ res = <<>>
    /\ err = Absent
    /\ exitCode = NoCode
    /\ timer = "none"
    /\ promise = "none"
    /\ value = Resolved(<<>>)
    /\ settlement = [by |-> "none", code |-> NoCode, res |-> <<>>, err |-> Absent,
                     called |-> FALSE]
    /\ stdinWrites = <<>>
    /\ stdinEnded = FALSE
    /\ checkCalled = FALSE
    /\ translations = 0
    /\ stdoutSeen = <<>>
    /\ stderrSeen = <<>>
    /\ checkLog = <<>>
    /\ versionsSeen = {}
    /\ connectionEnded = FALSE
    /\ closeCalls = 0

InitRpc ==
    /\ verb = "none"
    /\ rpcPc = "idle"
    /\ rpcOutcome = NoOutcome

\* a client as its constructor leaves it
Init == InitConnect /\ InitExec /\ InitRpc

\* the life of a client: connect(), then commands
Next ==
    \/ connect(ExecStrategyLists)
    \/ startStrategy
    \/ handshakeReady
    \/ handshakeError
    \/ execCall
    \/ execCallbackError
    \/ execCallbackStream
    \/ stdoutData
    \/ stderrData
    \/ streamExit
    \/ streamClose
    \/ timerFire
    \/ close

Spec == Init /\ [][Next]_vars

\* the same life, with the event loop running every timer that was set:
\* a callback handed to setTimeout is called once its delay has elapsed
SpecLive == Init /\ [][Next]_vars /\ WF_vars(timerFire)

\* the verbs alone: each call of a verb, the outcome of its command and the
\* handlers the verb chained to it
NextRpc ==
    \/ rpcCall
    \/ rpcExecResolves
    \/ rpcExecRejects
    \/ rpcExecFails
    \/ rpcThen

SpecRpc == Init /\ [][NextRpc]_vars

\* the texts errorHandler is handed: none, one piece, two pieces
ErrorTexts ==
    {Absent} \cup { <<p>> : p \in StderrPieces }
             \cup { <<p, q>> : p \in {"boom", "E_full"}, q \in {"boom", "E_full"} }

\* errorHandler(code, err) is called
errorHandlerCall ==
    /\ translations = 0
    /\ value' = Rejected(errorHandler(exitCode, err, checkCalled))
    /\ checkCalled' = calledAfterErrorHandler(err, checkCalled)
    /\ errorHandlerHistory(err)
    /\ translations' = 1
    /\ UNCHANGED <<callId, execPc, commandName, payload, cmdPayload, ctxUsername, res, err,
                   exitCode, timer, promise, settlement, stdinWrites, stdinEnded>>
    /\ UNCHANGED <<connectVars, seenVars, closeVars, rpcVars>>

\* errorHandler alone: every failure code, every error text, the version
\* check made before or not
InitErr ==
    /\ InitConnect
    /\ callId = 0
    /\ execPc = "none"
    /\ commandName = "none"
    /\ payload = <<>>
    /\ cmdPayload = <<>>
    /\ ctxUsername = Undefined
    /\ res = <<>>
    /\ err \in ErrorTexts
    /\ exitCode \in { c \in ExitCodes : isFailureCode(c) }
    /\ timer = "none"
    /\ promise = "none"
    /\ value = Resolved(<<>>)
    /\ settlement = [by |-> "none", code |-> NoCode, res |-> <<>>, err |-> Absent,
                     called |-> FALSE]
    /\ stdinWrites = <<>>
    /\ stdinEnded = FALSE
    /\ checkCalled \in BOOLEAN
    /\ translations = 0
    /\ stdoutSeen = <<>>
    /\ stderrSeen = <<>>
    /\ checkLog = (IF checkCalled THEN <<"v1">> ELSE <<>>)
    /\ versionsSeen = (IF checkCalled THEN {"v1"} ELSE {})
    /\ connectionEnded = FALSE
    /\ closeCalls = 0
    /\ InitRpc

NextErr == errorHandlerCall

SpecErr == InitErr /\ [][NextErr]_vars

\* the negotiation alone, over every strategy list
NextConnect ==
    \/ connect(AllStrategyLists)
    \/ startStrategy
    \/ handshakeReady
    \/ handshakeError

SpecConnect == Init /\ [][NextConnect]_vars

\* the negotiation over every strategy list, and the calls of exec() made
\* after it up to the point where the command context is built
NextIdentity ==
    \/ NextConnect
    \/ execCall
    \/ execCallbackError
    \/ execCallbackStream

SpecIdentity == Init /\ [][NextIdentity]_vars

\* ------------------------------------------------------------------ claims

\* C1: the strategies of the list are attempted one after another in list
\* order, each attempt finished (and failed) before the next one starts; once
\* the strategy at index i succeeds no strategy after it is attempted and
\* connect() returns the client holding the connection strategy i established.
C1_SequentialFirstSuccessWins ==
    /\ Len(attemptLog) <= Len(strategiesNames)
    /\ \A j \in 1..Len(attemptLog) :
         /\ attemptLog[j].index = j
         /\ attemptLog[j].strategy = strategiesNames[j]
         /\ j < Len(attemptLog) => attemptLog[j].outcome = "raised"
         /\ attemptLog[j].outcome = "ready" =>
              /\ j = Len(attemptLog)
              /\ connectPc = "returned"
              /\ connection = [by |-> strategiesNames[j], index |-> j]
    /\ connectPc = "returned" =>
         /\ Len(attemptLog) > 0
         /\ attemptLog[Len(attemptLog)].outcome = "ready"

\* C1 witness: the second strategy of a list of three has succeeded
C1_Witness ==
    /\ connectPc = "returned"
    /\ Len(strategiesNames) = 3
    /\ Len(attemptLog) = 2
    /\ connection # NoConnection

RECURSIVE C2_FailureTexts(_)
\* the separator and the failure text of every attempt of the log, in order
C2_FailureTexts(log) ==
    IF log = <<>> THEN <<>>
    ELSE <<"\n[-] ">> \o log[1].error.message \o C2_FailureTexts(Tail(log))

\* C2: when every strategy of the list has failed recoverably, connect() fails
\* with AuthenticationFailed and its message is the header line followed by
\* the failure text of every attempt, each once, in attempt order, each
\* preceded by the separator.
C2_AggregateMessage ==
    /\ ( /\ connectPc # "idle"
         /\ Len(attemptLog) = Len(strategiesNames)
         /\ \A j \in 1..Len(attemptLog) :
              /\ attemptLog[j].outcome = "raised"
              /\ attemptLog[j].error.kind = "AuthenticationStrategyFailed" )
       => connectPc = "authFailed"
    /\ connectPc = "authFailed" =>
         /\ connectError.kind = "AuthenticationFailed"
         /\ Len(attemptLog) = Len(strategiesNames)
         /\ connectError.message =
              <<"The following strategies were failed">> \o C2_FailureTexts(attemptLog)

\* C2 witness: three strategies failed with three different texts
C2_Witness ==
    /\ connectPc = "authFailed"
    /\ Len(attemptLog) = 3
    /\ attemptLog[1].error.message # attemptLog[2].error.message
    /\ attemptLog[2].error.message # attemptLog[3].error.message
    /\ attemptLog[1].error.message # attemptLog[3].error.message

\* C3: a strategy that raises an error which is no strategy failure ends the
\* negotiation: it is the last strategy invoked, connect() rejects with that
\* very error (not with the AuthenticationFailed aggregate, and the error is
\* not among the collected failures), and no connection is stored.
C3_UnexpectedErrorAborts ==
    \A j \in 1..Len(attemptLog) :
      ( /\ attemptLog[j].outcome = "raised"
        /\ attemptLog[j].error.kind # "AuthenticationStrategyFailed" )
      => /\ j = Len(attemptLog)
         /\ connectPc = "threw"
         /\ connectError = attemptLog[j].error
         /\ connection = NoConnection
         /\ Len(strategiesFailures) = j - 1
         /\ \A k \in 1..Len(strategiesFailures) :
              strategiesFailures[k] = attemptLog[k].error.message

\* C3 witness: the host was not found at the second of three strategies
C3_Witness ==
    /\ connectPc = "threw"
    /\ Len(strategiesNames) = 3
    /\ Len(attemptLog) = 2
    /\ connectError.kind = "GeneralError"

\* C4: one exec() call settles once: after the promise is resolved or
\* rejected, no later signal or timer changes its state, its value or the path
\* that settled it; a call whose stream has closed or whose timer has fired is
\* settled; and when close comes before the timer fires, the outcome is the
\* one computed from the code of the close signal and the buffers at close.
C4_SettlesExactlyOnce ==
    /\ [][ (promise \in {"resolved", "rejected"} /\ callId' = callId)
             => (promise' = promise /\ value' = value /\ settlement' = settlement) ]_vars
    /\ [] ( (execPc = "closed" \/ timer = "fired") => promise \in {"resolved", "rejected"} )
    /\ [] ( (execPc = "closed" /\ settlement.by # "timer")
              => /\ settlement.by = "close"
                 /\ settlement.res = res
                 /\ settlement.err = err
                 /\ timer # "none" => settlement.code = exitCode
                 /\ value = IF settlement.code \in {NoCode, <<0>>}
                            THEN Resolved(clean(res))
                            ELSE Rejected(errorHandler(settlement.code, err, settlement.called)) )

\* C4 witness: close settled the call with an error and the timer fired afterwards
C4_Witness ==
    /\ execPc = "closed"
    /\ timer = "fired"
    /\ settlement.by = "close"
    /\ promise = "rejected"
    /\ translations = 2

\* the error class the table of the specification gives each exit code
C5_KindTable(n) ==
    CASE n = 127 -> "ComponentNotFound"
      [] n = 128 -> "PermissionDenied"
      [] n = 129 -> "RemoteScopeNotFound"
      [] n = 130 -> "PermissionDenied"
      [] n = 131 -> "MergeConflictOnRemote"
      [] n = 132 -> "CustomError"
      [] n = 133 -> "OldClientVersion"
      [] n = 134 -> "ExportAnotherOwnerPrivate"
      [] OTHER -> "UnexpectedNetworkError"

\* C5: the kind of the error errorHandler returns is decided by the exit code
\* alone, by the table 127..134 and UnexpectedNetworkError for any other
\* code, whatever the stderr text is and whether it decodes; the errors of
\* codes 128 and 130 carry host and path whatever the stderr text is.
\* (CustomError is the class the specification calls GenericRemoteError.)
C5_KindByExitCode ==
    translations = 1 =>
      /\ value.error.kind = C5_KindTable(exitCode[1])
      /\ exitCode[1] \in {128, 130} => value.error.detail = HostAndPath

\* C5 witness: code 130 was translated with a stderr text that decodes
C5_Witness ==
    /\ translations = 1
    /\ exitCode = <<130>>
    /\ err = <<"E_full">>
    /\ value.error.kind = "PermissionDenied"

\* the payload field the table of the specification reads for each code
C6_Field(n, p) ==
    CASE n = 127 -> p.id
      [] n = 129 -> p.name
      [] n = 131 -> p.idsAndVersions
      [] OTHER -> p.message

\* C6: the detail of a translated error is the payload field of its kind when
\* stderr decodes (to an envelope of a compatible version) and the field is
\* there, and otherwise the fallback of the table: the raw stderr text for 127,
\* 129, 132, 133, 134 and every other code, the empty list for 131, and
\* "unknown" for the two scopes of 134.
C6_DetailOrFallback ==
    (translations = 1 /\ exitCode[1] \notin {128, 130}) =>
      LET u == unpack(err)
          n == exitCode[1]
          decoded == u.ok /\ ~incompatible(u.headers.version) /\ u.payload.present
          known == u.ok => ~incompatible(u.headers.version)
      IN known =>
         /\ value.error.detail =
              IF decoded /\ C6_Field(n, u.payload) # Absent THEN C6_Field(n, u.payload)
              ELSE IF n = 131 THEN <<>> ELSE err
         /\ n = 134 =>
              /\ value.error.sourceScope =
                   IF decoded /\ u.payload.sourceScope # Absent THEN u.payload.sourceScope
                   ELSE <<"unknown">>
              /\ value.error.destinationScope =
                   IF decoded /\ u.payload.destinationScope # Absent
                   THEN u.payload.destinationScope ELSE <<"unknown">>

C8_PutEchoStripped ==
    (settlement.by \in {"close", "timer"} /\ settlement.code = <<0>> /\ promise = "resolved") =>
      IF commandName = "_put"
      THEN indexOf(value.text, payload) = 0
      ELSE value.text = clean(settlement.res)

RECURSIVE C9_TrimTrailing(_)
\* the text without its trailing newline characters
C9_TrimTrailing(str) ==
    IF str # <<>> /\ str[Len(str)] = NL
    THEN C9_TrimTrailing(SubSeq(str, 1, Len(str) - 1))
    ELSE str

\* C9: on exit code 0 the resolved text is the stdout text with its trailing
\* newline characters removed and nothing else changed.
C9_TrailingNewlinesTrimmed ==
    (settlement.by \in {"close", "timer"} /\ settlement.code = <<0>> /\ promise = "resolved") =>
      value.text = C9_TrimTrailing(settlement.res)

\* C10: exec() on a client without a connection fails fast: the call is
\* rejected at once, connection.exec is not invoked and so no stream is
\* opened, nothing is written to a stream and no timer is scheduled.
C10_NoConnectionFailsFast ==
    (callId > 0 /\ connection = NoConnection) =>
      /\ execPc = "failed"
      /\ promise = "rejected"
      /\ settlement.by = "noConnection"
      /\ value.error.detail = <<"ssh connection is not defined">>
      /\ stdinWrites = <<>>
      /\ ~stdinEnded
      /\ timer = "none"
      /\ res = <<>> /\ err = Absent

\* C10 witness: exec() was called after connect() had failed
C10_Witness ==
    /\ connectPc = "authFailed"
    /\ connection = NoConnection
    /\ callId = 1
    /\ execPc = "failed"
    /\ promise = "rejected"

\* C11: describeScope() rejects with RemoteScopeNotFound(path), and with no
\* other error, whenever its command or the decoding of its response fails:
\* a failure exit code with any stderr, an exec error, a missing connection,
\* an undecodable response, a version check that raises.
C11_DescribeScopeCollapses ==
    (verb = "describeScope" /\ rpcPc = "done") =>
        LET u == unpack(value.text)
            failed == \/ promise = "rejected"
                      \/ ~u.ok
                      \/ rpcOutcome.checkRan /\ incompatible(u.headers.version)
        IN /\ failed =>
                /\ rpcOutcome.state = "rejected"
                /\ rpcOutcome.error = Error("RemoteScopeNotFound", <<"scope/path">>)
           /\ ~failed =>
                /\ rpcOutcome.state = "resolved"
                /\ rpcOutcome.payload = u.payload

\* C11 witness: the command of describeScope ended with code 127 and the
\* caller was given RemoteScopeNotFound
C11_Witness ==
    /\ verb = "describeScope"
    /\ rpcPc = "done"
    /\ promise = "rejected"
    /\ value.error.kind = "ComponentNotFound"
    /\ rpcOutcome.error.kind = "RemoteScopeNotFound"

\* C12 as stated: whenever a command resolved with a text that does not
\* decode, the verb rejects with SSHInvalidResponse carrying exactly that
\* text, for fetch and for every verb that decodes with _unpack.
C12_UndecodableIsInvalidResponse ==
    (rpcPc = "done" /\ promise = "resolved" /\ ~unpack(value.text).ok) =>
        /\ rpcOutcome.state = "rejected"
        /\ rpcOutcome.error = Error("SSHInvalidResponse", value.text)

\* C12 amended: the same, for every verb except describeScope
C12_UndecodableExceptDescribeScope ==
    (rpcPc = "done" /\ promise = "resolved" /\ ~unpack(value.text).ok
       /\ verb # "describeScope") =>
        /\ rpcOutcome.state = "rejected"
        /\ rpcOutcome.error = Error("SSHInvalidResponse", value.text)

\* C12 witness: fetch was answered with text that is no envelope
C12_Witness ==
    /\ verb = "fetch"
    /\ rpcPc = "done"
    /\ promise = "resolved"
    /\ value.text = <<"boom">>
    /\ rpcOutcome.error = Error("SSHInvalidResponse", <<"boom">>)

\* C13: every verb that decoded a response envelope has called the version
\* check on its header version before its promise settles.
C13_DecodeThenCheck ==
    (rpcPc = "done" /\ rpcOutcome.decoded) => rpcOutcome.checkInvoked

\* C20: the wrapped check function has run exactly once on each distinct
\* version the memoized check was called with, and on no other version.
C20_OncePerVersion ==
    /\ \A v \in versionsSeen :
         Cardinality({ i \in 1..Len(checkLog) : checkLog[i] = v }) = 1
    /\ \A i \in 1..Len(checkLog) : checkLog[i] \in versionsSeen

\* C14: exec() never ends the connection: whatever calls were made and
\* however they ended, the connection connect() established is kept and is
\* open as long as the caller has not called close().
C14_NeverClosedAutomatically ==
    /\ closeCalls = 0 => ~connectionEnded
    /\ connectPc = "returned" => connection # NoConnection

\* C14 witness: two commands have run to their end on a connection, the
\* second one through exit, close and the timer, and the connection is open
C14_Witness ==
    /\ connection # NoConnection
    /\ callId = 2
    /\ execPc = "closed"
    /\ timer = "fired"
    /\ promise = "rejected"
    /\ ~connectionEnded

\* the error a strategy attempt is expected to raise, by what made it fail
C15_Classified(a) ==
    IF ~a.handshake
    THEN /\ a.strategy \in {"token", "ssh-agent", "ssh-key"}
         /\ a.outcome = "raised"
         /\ a.error.kind = "AuthenticationStrategyFailed"
    ELSE a.outcome = "raised" =>
         CASE a.cause.message = "All configured authentication methods failed" ->
                a.error = [kind |-> "AuthenticationStrategyFailed",
                           message |-> <<authFailedMsg(a.strategy)>>]
           [] a.cause.code = "ENOTFOUND" ->
                a.error.kind # "AuthenticationStrategyFailed"
           [] a.cause.message = "Cannot parse privateKey: Unsupported key format" ->
                /\ a.error.kind = "AuthenticationStrategyFailed"
                /\ a.error.message[1] =
                     "error connecting with private ssh key. in case passphrase is used, use ssh-agent."
           [] OTHER ->
                a.error = [kind |-> "AuthenticationStrategyFailed",
                           message |-> <<authFailedMsg(a.strategy), " due to an error ",
                                         a.cause.message>>]

\* C15: a missing credential is a recoverable failure raised without a
\* handshake; a handshake error is recoverable with the hint (generic message),
\* non-recoverable (host not found), recoverable with the agent hint (key
\* cannot be parsed), or recoverable with the hint and the underlying message
\* (anything else, a timeout included); after a recoverable failure the next
\* strategy of the list is attempted, after a non-recoverable one none is.
C15_OutcomesClassified ==
    \A j \in 1..Len(attemptLog) :
        LET a == attemptLog[j] IN
        /\ C15_Classified(a)
        /\ (a.outcome = "raised" /\ a.error.kind = "AuthenticationStrategyFailed"
              /\ j < Len(strategiesNames)) =>
             \/ Len(attemptLog) > j
             \/ connectPc = "loop" /\ idx = j + 1
        /\ (a.outcome = "raised" /\ a.error.kind # "AuthenticationStrategyFailed") =>
             /\ j = Len(attemptLog)
             /\ connectPc = "threw"

\* C15 witness: the handshake of the first strategy timed out and the second
\* strategy was attempted
C15_Witness ==
    /\ Len(attemptLog) = 2
    /\ attemptLog[1].handshake
    /\ attemptLog[1].cause.message = TIMEOUT_MESSAGE
    /\ attemptLog[1].error.kind = "AuthenticationStrategyFailed"
    /\ attemptLog[2].index = 2

\* C16: when close has settled the call and the timer of the exit handler
\* fires later, nothing more is done: the error translation (with its decode
\* and version check) has run as often as close ran it, at most once.
C16_LateTimerIsNoOp ==
    (settlement.by = "close" /\ timer = "fired") =>
        translations = (IF isFailureCode(settlement.code) THEN 1 ELSE 0)

\* C17: a call whose stream emitted exit is settled in the end, whether or
\* not close ever arrives: the timer of the exit handler fires and settles it.
C17_ExitEventuallySettles ==
    (timer = "pending" /\ promise = "pending") ~> (promise \in {"resolved", "rejected"})

\* C17 witness: the timer has settled a call whose stream has not closed
C17_Witness ==
    /\ execPc = "streaming"
    /\ timer = "fired"
    /\ settlement.by = "timer"
    /\ promise \in {"resolved", "rejected"}

\* the text an accumulator holds after these chunks, if each was appended
C18_Concat(chunks) == IF chunks = <<>> THEN Absent ELSE chunks

\* C18: while the stream is open the stdout accumulator is the concatenation
\* of the stdout chunks delivered so far and the stderr variable is the
\* concatenation of the stderr chunks delivered so far; the close handler
\* settles from exactly these texts.
C18_ChunksAppended ==
    /\ execPc = "streaming" =>
         /\ res = stdoutSeen
         /\ err = C18_Concat(stderrSeen)
    /\ (execPc = "closed" /\ settlement.by = "close") =>
         /\ settlement.err = C18_Concat(stderrSeen)
         /\ settlement.res = (IF commandName = "_put" THEN replaceFirst(stdoutSeen, payload)
                              ELSE stdoutSeen)

\* the identities a strategy connects with, as this._sshUsername holds them:
\* the key and agent strategies connect as the user of the client and write
\* nothing
C19_Identities(s) ==
    CASE s = "token" -> {"token"}
      [] s = "anonymous" -> {"anonymous"}
      [] s = "user-password" -> PromptUsers
      [] OTHER -> {Undefined}

\* C19: once connect() has returned, the identity the client remembers, and
\* the sshUsername of every command sent over the connection, is the one of
\* the strategy that established the connection.
C19_WinnerIdentityReported ==
    /\ connectPc = "returned" => sshUsername \in C19_Identities(connection.by)
    /\ execPc \in {"opening", "streaming"} => ctxUsername \in C19_Identities(connection.by)

\* C21: whenever a verb decoded an envelope whose header version is
\* incompatible, be it the response of the command or the error envelope the
\* error translator decoded, the caller is given the incompatibility error,
\* whichever verb it was and whatever was decoded before (describeScope, which
\* reports every failure as RemoteScopeNotFound, is left aside).
C21_IncompatibilityRaised ==
    (rpcPc = "done" /\ verb # "describeScope") =>
        LET r == unpack(value.text)
            e == unpack(err)
        IN /\ (promise = "resolved" /\ r.ok /\ incompatible(r.headers.version)) =>
                /\ rpcOutcome.state = "rejected"
                /\ rpcOutcome.error.kind = "IncompatibleVersion"
           /\ (promise = "rejected" /\ e.ok /\ incompatible(e.headers.version)) =>
                /\ rpcOutcome.state = "rejected"
                /\ rpcOutcome.error.kind = "IncompatibleVersion"

\* C22: the command line of _put is built with null in place of the payload;
\* the payload is written to the input of the stream once, when the stream
\* has opened, and the input is ended; before that, or when no stream opens,
\* nothing is written. Every other verb has its payload in the command line
\* and writes nothing to the input of the stream.
C22_PutPayloadOnStdin ==
    execPc # "none" =>
        IF commandName = "_put"
        THEN /\ cmdPayload = <<"null">>
             /\ execPc \in {"opening", "failed"} => (stdinWrites = <<>> /\ ~stdinEnded)
             /\ execPc \in {"streaming", "closed"} => (stdinWrites = <<payload>> /\ stdinEnded)
        ELSE /\ cmdPayload = payload
             /\ stdinWrites = <<>>
             /\ ~stdinEnded

\* C22 witness: a _put call has run to its end with its payload written once
C22_Witness ==
    /\ commandName = "_put"
    /\ execPc = "closed"
    /\ promise = "resolved"
    /\ cmdPayload # payload
    /\ stdinWrites = <<payload>>
    /\ stdinEnded

\* C23: a completion signal without a numeric code is treated like code 0:
\* whether the timer of exit or close settles the call with it, the call
\* resolves with the text made from the stdout accumulator and errorHandler
\* is not called, whatever stderr held.
C23_NoCodeResolves ==
    (settlement.by \in {"close", "timer"} /\ settlement.code = NoCode) =>
        /\ promise = "resolved"
        /\ value = Resolved(clean(settlement.res))
        /\ translations = 0

\* C23 witness: exit and close came without a code after stderr text was
\* received, and the timer had resolved the call
C23_Witness ==
    /\ settlement.by = "timer"
    /\ settlement.code = NoCode
    /\ settlement.err # Absent
    /\ execPc = "closed"
    /\ promise = "resolved"

\* C24: when the timer of the exit handler settles a call, it settles it from
\* the code the exit event carried and from everything the stream delivered
\* up to the moment the timer fires: the resolved text is made from all the
\* stdout chunks delivered by then, errorHandler is given all the stderr
\* chunks delivered by then, and no text when none was delivered.
C24_TimerUsesBuffersAtExpiry ==
    [][(timer = "pending" /\ timer' = "fired" /\ promise = "pending") =>
         LET errAtExpiry == IF stderrSeen = <<>> THEN Absent ELSE stderrSeen IN
         /\ settlement'.by = "timer"
         /\ settlement'.code = exitCode
         /\ value' = IF isFailureCode(exitCode)
                     THEN Rejected(errorHandler(exitCode, errAtExpiry, checkCalled))
                     ELSE Resolved(clean(stdoutSeen))]_vars

====
